---- MODULE Spec2Model ----
(***************************************************************************)
(* Model of app.py, the Research Paper Summarizer.                         *)
(*                                                                         *)
(* app.py is a Streamlit script: the whole file is executed top to bottom  *)
(* once when the page is first rendered and again on every widget          *)
(* interaction; `st.button` is true only in the execution triggered by the *)
(* click.  One execution of the file is a "script run".                    *)
(*                                                                         *)
(* Strings are sequences of one-character strings.  The character U+274C   *)
(* (the cross mark that starts the requester's error prefix) is written    *)
(* "U+274C" and stands for that single character.                          *)
(***************************************************************************)
EXTENDS Integers, Sequences, FiniteSets, TLC

VARIABLES
    file,        \* template.json on disk: [valid, obj]
    TEMPLATE,    \* the global TEMPLATE of the current script run: [bound, obj]
    loads,       \* how many times template.json has been opened and parsed
    url,         \* value of the "PDF URL:" text input
    audience,    \* value of the "Summary Type:" selectbox
    length,      \* value of the "Summary Length" slider
    pc,          \* "Idle", "Extracting" (GET in flight), "Summarizing" (POST in flight)
    clicked,     \* whether st.button returned True in the current / last script run
    gets,        \* PDF GETs issued by the current / last script run
    posts,       \* completion POSTs issued by the current / last script run
    exState,     \* extract_text_from_pdf in this run: "none","called","returned","raised"
    gsState,     \* generate_summary in this run: "none","called","returned","raised"
    pages,       \* texts of the pages PdfReader decoded in this run
    text,        \* value returned by extract_text_from_pdf in this run
    prompt,      \* request generate_summary built in this run: [system, user]
    reply,       \* what requests.post did in this run
    summary,     \* value returned by generate_summary in this run
    display      \* what the run rendered: [kind, msg]

vars == <<file, TEMPLATE, loads, url, audience, length, pc, clicked, gets, posts,
          exState, gsState, pages, text, prompt, reply, summary, display>>

----------------------------------------------------------------------------
(* Bounds of the model                                                     *)

MaxPages == 2
MaxRuns == 4

----------------------------------------------------------------------------
(* Program constants                                                       *)

TextCap == 3000
SliderMin == 3
SliderMax == 10
SliderDefault == 5

ErrorPrefix == <<"U+274C", " ", "E", "r", "r", "o", "r", ":", " ">>
ShellErrorPrefix == <<"E", "r", "r", "o", "r", ":", " ">>
WarningMsg == <<"P", "l", "e", "a", "s", "e", " ", "e", "n", "t", "e", "r", " ", "a", " ", "P", "D", "F", " ", "U", "R", "L">>
ExtractFailedMsg == <<"F", "a", "i", "l", "e", "d", " ", "t", "o", " ", "e", "x", "t", "r", "a", "c", "t", " ", "t", "e", "x", "t", " ", "f", "r", "o", "m", " ", "P", "D", "F">>
SentencesSuffix == <<" ", "s", "e", "n", "t", "e", "n", "c", "e", "s">>

BeginnerFriendly == <<"B", "e", "g", "i", "n", "n", "e", "r", "-", "F", "r", "i", "e", "n", "d", "l", "y">>
Technical == <<"T", "e", "c", "h", "n", "i", "c", "a", "l">>
Concise == <<"C", "o", "n", "c", "i", "s", "e">>
Detailed == <<"D", "e", "t", "a", "i", "l", "e", "d">>
Audiences == {BeginnerFriendly, Technical, Concise, Detailed}
Lengths == SliderMin..SliderMax

K_audience == <<"a", "u", "d", "i", "e", "n", "c", "e">>
K_length == <<"l", "e", "n", "g", "t", "h">>
K_text == <<"t", "e", "x", "t">>
K_choices == <<"c", "h", "o", "i", "c", "e", "s">>
K_message == <<"m", "e", "s", "s", "a", "g", "e">>
K_content == <<"c", "o", "n", "t", "e", "n", "t">>
K_prompt_template == <<"p", "r", "o", "m", "p", "t", "_", "t", "e", "m", "p", "l", "a", "t", "e">>
K_system_prompt == <<"s", "y", "s", "t", "e", "m", "_", "p", "r", "o", "m", "p", "t">>

----------------------------------------------------------------------------
(* Strings and exceptions                                                  *)

Whitespace == {" ", "\n", "\t"}

Take(s, n) == IF Len(s) <= n THEN s ELSE SubSeq(s, 1, n)

IsPrefix(p, s) == Len(p) <= Len(s) /\ SubSeq(s, 1, Len(p)) = p

Block(n, c) == [i \in 1..n |-> c]

\* repr() of a str key, as it appears in str(KeyError(key))
Quote(s) == <<"'">> \o s \o <<"'">>

Digit(d) == <<"0", "1", "2", "3", "4", "5", "6", "7", "8", "9">>[d + 1]

RECURSIVE IntToStr(_)
IntToStr(n) == IF n < 10 THEN <<Digit(n)>>
               ELSE IntToStr(n \div 10) \o <<Digit(n % 10)>>

RECURSIVE LStrip(_)
LStrip(s) == IF s # <<>> /\ Head(s) \in Whitespace THEN LStrip(Tail(s)) ELSE s

RECURSIVE RStrip(_)
RStrip(s) == IF s # <<>> /\ s[Len(s)] \in Whitespace
             THEN RStrip(SubSeq(s, 1, Len(s) - 1)) ELSE s

Strip(s) == RStrip(LStrip(s))

Exc(type, msg) == [type |-> type, msg |-> msg]
KeyError(key) == Exc("KeyError", Quote(key))
Str(e) == e.msg

Raised(e) == [raised |-> TRUE, exc |-> e, val |-> <<>>]
Returned(v) == [raised |-> FALSE, exc |-> Exc("none", <<>>), val |-> v]

----------------------------------------------------------------------------
(* Template Store: template.json and the top-level load, lines 24-26       *)

Obj(sp, pt) == (K_system_prompt :> sp) @@ (K_prompt_template :> pt)
NoObj == [k \in {} |-> <<>>]

\* Contents template.json may have.  The code validates nothing beyond
\* json.load succeeding, so an object with a stray placeholder loads like
\* any other.
TplPipe == <<"{", "a", "u", "d", "i", "e", "n", "c", "e", "}", "|", "{", "l", "e", "n", "g", "t", "h", "}", "|", "{", "t", "e", "x", "t", "}">>
TplShort == <<"{", "t", "e", "x", "t", "}", "#", "{", "a", "u", "d", "i", "e", "n", "c", "e", "}">>
TplStray == <<"{", "t", "e", "x", "t", "}", "{", "t", "o", "p", "i", "c", "}">>

FilePipe == [valid |-> TRUE, obj |-> Obj(<<"S">>, TplPipe)]
FileShort == [valid |-> TRUE, obj |-> Obj(<<"R">>, TplShort)]
FileStray == [valid |-> TRUE, obj |-> Obj(<<"S">>, TplStray)]
FileUnreadable == [valid |-> FALSE, obj |-> NoObj]

TemplateFiles == {FilePipe, FileShort, FileStray, FileUnreadable}

ConfigErrorMsg == <<"t", "e", "m", "p", "l", "a", "t", "e", ".", "j", "s", "o", "n">>

\* with open('template.json') as f: TEMPLATE = json.load(f)
LoadTemplate(f) ==
    IF f.valid THEN Returned(f.obj)
    ELSE Raised(Exc("ConfigError", ConfigErrorMsg))

Unbound == [bound |-> FALSE, obj |-> NoObj]
Bound(o) == [bound |-> TRUE, obj |-> o]

----------------------------------------------------------------------------
(* PDF Text Extractor: extract_text_from_pdf, lines 28-35                  *)

PdfReadErrorMsg == <<"E", "O", "F", " ", "m", "a", "r", "k", "e", "r", " ", "n", "o", "t", " ", "f", "o", "u", "n", "d">>
ConnectionErrorMsg == <<"C", "o", "n", "n", "e", "c", "t", "i", "o", "n", " ", "r", "e", "f", "u", "s", "e", "d">>

\* A variant that puts the newline in front of the page's text.
PageSegmentLeading(p) == <<"\n">> \o p

\* The contribution of one page to the text (line 34).
PageSegment(p) == p \o <<"\n">>

\* A variant that puts newlines between the pages only ("\n".join).
RECURSIVE ConcatPagesJoined(_)
ConcatPagesJoined(ps) ==
    IF ps = <<>> THEN <<>>
    ELSE IF Len(ps) = 1 THEN ps[1]
    ELSE ConcatPagesJoined(SubSeq(ps, 1, Len(ps) - 1)) \o <<"\n">> \o ps[Len(ps)]

\* text = ""; for page in reader.pages: text += page.extract_text() + "\n"
RECURSIVE ConcatPages(_)
ConcatPages(ps) ==
    IF ps = <<>> THEN <<>>
    ELSE ConcatPages(SubSeq(ps, 1, Len(ps) - 1)) \o PageSegment(ps[Len(ps)])

\* A variant whose slice is one character too long.
TruncateInclusive(s) == Take(s, TextCap + 1)

\* text[:3000]
Truncate(s) == Take(s, TextCap)

\* What requests.get can do: raise, or return a response whose body decodes
\* as a PDF (with its pages' texts) or does not.  The status is part of the
\* response and the code never looks at it.
GetRaises(e) == [raises |-> TRUE, exc |-> e, status |-> 0, pdf |-> FALSE, pages |-> <<>>]
GetResponse(st, isPdf, ps) ==
    [raises |-> FALSE, exc |-> Exc("none", <<>>), status |-> st, pdf |-> isPdf, pages |-> ps]

ExtractTextFromPdf(resp) ==
    IF resp.raises THEN Raised(resp.exc)
    ELSE IF ~resp.pdf THEN Raised(Exc("PdfReadError", PdfReadErrorMsg))
    ELSE Returned(Truncate(ConcatPages(resp.pages)))

----------------------------------------------------------------------------
(* Summary Requester: generate_summary, lines 37-66                        *)

\* str.format(**kwargs) on a format string with named replacement fields,
\* scanned left to right; the substituted values are not scanned again.
RECURSIVE IndexOf(_, _, _)
IndexOf(s, c, i) == IF i > Len(s) THEN 0 ELSE IF s[i] = c THEN i ELSE IndexOf(s, c, i + 1)

UnclosedMsg == <<"e", "x", "p", "e", "c", "t", "e", "d", " ", "'", "}", "'", " ", "b", "e", "f", "o", "r", "e", " ", "e", "n", "d", " ", "o", "f", " ", "s", "t", "r", "i", "n", "g">>
SingleBraceMsg == <<"S", "i", "n", "g", "l", "e", " ", "'", "}", "'", " ", "e", "n", "c", "o", "u", "n", "t", "e", "r", "e", "d", " ", "i", "n", " ", "f", "o", "r", "m", "a", "t", " ", "s", "t", "r", "i", "n", "g">>

RECURSIVE Format(_, _)
Format(fmt, kwargs) ==
    IF fmt = <<>> THEN Returned(<<>>)
    ELSE IF Head(fmt) = "}" THEN Raised(Exc("ValueError", SingleBraceMsg))
    ELSE IF Head(fmt) # "{" THEN
        LET rest == Format(Tail(fmt), kwargs)
        IN  IF rest.raised THEN rest ELSE Returned(<<Head(fmt)>> \o rest.val)
    ELSE
        LET close == IndexOf(fmt, "}", 2)
        IN  IF close = 0 THEN Raised(Exc("ValueError", UnclosedMsg))
            ELSE LET key == SubSeq(fmt, 2, close - 1)
                     rest == Format(SubSeq(fmt, close + 1, Len(fmt)), kwargs)
                 IN  IF key \notin DOMAIN kwargs THEN Raised(KeyError(key))
                     ELSE IF rest.raised THEN rest
                     ELSE Returned(kwargs[key] \o rest.val)

\* audience=audience, length=f"{length} sentences", text=text
Kwargs(t, a, n) ==
    (K_audience :> a) @@ (K_length :> (IntToStr(n) \o SentencesSuffix)) @@ (K_text :> t)

\* Lines 39-58: everything generate_summary does before its try block.
BuildRequest(tmpl, t, a, n) ==
    IF K_prompt_template \notin DOMAIN tmpl THEN Raised(KeyError(K_prompt_template))
    ELSE LET p == Format(tmpl[K_prompt_template], Kwargs(t, a, n))
         IN  IF p.raised THEN p
             ELSE IF K_system_prompt \notin DOMAIN tmpl THEN Raised(KeyError(K_system_prompt))
             ELSE Returned([system |-> tmpl[K_system_prompt], user |-> p.val])

NoRequest == [system |-> <<>>, user |-> <<>>]

\* JSON values of a response body, tagged with their Python type.
JDict(f) == [t |-> "dict", v |-> f]
JList(s) == [t |-> "list", v |-> s]
JStr(s) == [t |-> "str", v |-> s]
JNull == [t |-> "null", v |-> <<>>]

TypeName(j) == CASE j.t = "dict" -> <<"d", "i", "c", "t">>
                 [] j.t = "list" -> <<"l", "i", "s", "t">>
                 [] j.t = "str" -> <<"s", "t", "r">>
                 [] OTHER -> <<"N", "o", "n", "e", "T", "y", "p", "e">>

IndexErrorMsg == <<"l", "i", "s", "t", " ", "i", "n", "d", "e", "x", " ", "o", "u", "t", " ", "o", "f", " ", "r", "a", "n", "g", "e">>
NotSubscriptableMsg == <<" ", "o", "b", "j", "e", "c", "t", " ", "i", "s", " ", "n", "o", "t", " ", "s", "u", "b", "s", "c", "r", "i", "p", "t", "a", "b", "l", "e">>
NoStripMsg == <<" ", "o", "b", "j", "e", "c", "t", " ", "h", "a", "s", " ", "n", "o", " ", "a", "t", "t", "r", "i", "b", "u", "t", "e", " ", "'", "s", "t", "r", "i", "p", "'">>
JsonErrorMsg == <<"E", "x", "p", "e", "c", "t", "i", "n", "g", " ", "v", "a", "l", "u", "e">>
ClientErrorMsg == <<" ", "C", "l", "i", "e", "n", "t", " ", "E", "r", "r", "o", "r">>
ServerErrorMsg == <<" ", "S", "e", "r", "v", "e", "r", " ", "E", "r", "r", "o", "r">>

\* j[key] for a str key
GetKey(j, key) ==
    IF j.t = "dict"
    THEN IF key \in DOMAIN j.v THEN Returned(j.v[key]) ELSE Raised(KeyError(key))
    ELSE Raised(Exc("TypeError", Quote(TypeName(j)) \o NotSubscriptableMsg))

\* j[0]
GetFirst(j) ==
    IF j.t = "list"
    THEN IF Len(j.v) >= 1 THEN Returned(j.v[1]) ELSE Raised(Exc("IndexError", IndexErrorMsg))
    ELSE IF j.t = "dict" THEN Raised(Exc("KeyError", <<"0">>))
    ELSE Raised(Exc("TypeError", Quote(TypeName(j)) \o NotSubscriptableMsg))

\* What requests.post can do: raise, or return a response with a status and
\* a body that is JSON (with its value) or is not.
PostRaises(e) == [raises |-> TRUE, exc |-> e, status |-> 0, isJson |-> FALSE, json |-> JNull]
PostResponse(st, isJson, j) ==
    [raises |-> FALSE, exc |-> Exc("none", <<>>), status |-> st, isJson |-> isJson, json |-> j]
NoReply == [raises |-> FALSE, exc |-> Exc("none", <<>>), status |-> 0, isJson |-> FALSE, json |-> JNull]

\* response.raise_for_status(): requests raises HTTPError for 400..599 only
RaiseForStatus(resp) ==
    IF 400 <= resp.status /\ resp.status < 500
    THEN Raised(Exc("HTTPError", IntToStr(resp.status) \o ClientErrorMsg))
    ELSE IF 500 <= resp.status /\ resp.status < 600
    THEN Raised(Exc("HTTPError", IntToStr(resp.status) \o ServerErrorMsg))
    ELSE Returned(<<>>)

\* response.json()["choices"][0]["message"]["content"]
CompletionContent(resp) ==
    IF ~resp.isJson THEN Raised(Exc("JSONDecodeError", JsonErrorMsg))
    ELSE LET c == GetKey(resp.json, K_choices) IN
         IF c.raised THEN c
         ELSE LET f == GetFirst(c.val) IN
         IF f.raised THEN f
         ELSE LET m == GetKey(f.val, K_message) IN
         IF m.raised THEN m
         ELSE GetKey(m.val, K_content)

\* summary.strip()
StripSummary(j) ==
    IF j.t = "str" THEN Returned(Strip(j.v))
    ELSE Raised(Exc("AttributeError", Quote(TypeName(j)) \o NoStripMsg))

\* Lines 61-64: the body of the try block.
TryRequest(resp) ==
    IF resp.raises THEN Raised(resp.exc)
    ELSE LET s == RaiseForStatus(resp) IN
         IF s.raised THEN s
         ELSE LET c == CompletionContent(resp) IN
         IF c.raised THEN c
         ELSE StripSummary(c.val)

\* The exception classes that derive from Exception (all that appear here).
ExceptionTypes ==
    {"ConnectionError", "HTTPError", "JSONDecodeError", "KeyError", "IndexError",
     "TypeError", "AttributeError", "ValueError", "PdfReadError", "ConfigError"}

\* A variant that catches the transport's exceptions only.
RequesterCatchesTransport(e) == e.type \in {"ConnectionError", "HTTPError"}

\* except Exception as e (line 65)
RequesterCatches(e) == e.type \in ExceptionTypes

\* Lines 60-66: try / except around the request.
HandleResponse(resp) ==
    LET r == TryRequest(resp)
    IN  IF r.raised /\ RequesterCatches(r.exc)
        THEN Returned(ErrorPrefix \o Str(r.exc))
        ELSE r

----------------------------------------------------------------------------
(* Inputs from outside the program                                         *)

UrlA == <<"u">>
Urls == {<<>>, UrlA}

\* Texts a page can yield: nothing, a character, two lines, half the cap,
\* one character less than the cap.
PageTexts ==
    {<<>>, <<"a">>, <<"b", "\n", "c">>,
     Block(TextCap \div 2, "x"), Block(TextCap - 1, "y")}

RECURSIVE SeqsUpTo(_, _)
SeqsUpTo(S, n) ==
    IF n = 0 THEN {<<>>}
    ELSE LET shorter == SeqsUpTo(S, n - 1)
         IN  shorter \cup {Append(s, x) : s \in {t \in shorter : Len(t) = n - 1}, x \in S}

PdfDocs == SeqsUpTo(PageTexts, MaxPages)

\* The documents the shell is run against: no page, one empty page, one
\* short page, and one whose text exceeds the cap.
ShellDocs == {<<>>, << <<>> >>, << <<"a">> >>, <<Block(TextCap, "x"), <<"a">>>>}

Statuses == {200, 304, 404, 500}

GetOutcomesOver(docs) ==
    {GetRaises(Exc("ConnectionError", ConnectionErrorMsg))}
    \cup {GetResponse(st, FALSE, <<>>) : st \in Statuses}
    \cup {GetResponse(st, TRUE, d) : st \in Statuses, d \in docs}

GetOutcomes == GetOutcomesOver(ShellDocs)

Completion(c) ==
    JDict(K_choices :> JList(<<JDict(K_message :> JDict(K_content :> c))>>))

HelloWorld == <<" ", "H", "e", "l", "l", "o", " ", "w", "o", "r", "l", "d", ".", " ">>
QuotaText == ErrorPrefix \o <<"q">>

JsonBodies ==
    {JDict(NoObj),
     JDict(K_choices :> JList(<<>>)),
     JDict(K_choices :> JList(<<JDict(NoObj)>>)),
     JDict(K_choices :> JList(<<JDict(K_message :> JDict(NoObj))>>)),
     Completion(JNull),
     Completion(JStr(HelloWorld)),
     Completion(JStr(QuotaText))}

PostOutcomes ==
    {PostRaises(Exc("ConnectionError", ConnectionErrorMsg))}
    \cup {PostResponse(st, FALSE, JNull) : st \in Statuses}
    \cup {PostResponse(st, TRUE, j) : st \in Statuses, j \in JsonBodies}

----------------------------------------------------------------------------
(* Interaction Shell: the script body, lines 112-157                       *)

NoDisplay == [kind |-> "none", msg |-> <<>>]
Shown(kind, msg) == [kind |-> kind, msg |-> msg]

\* A variant that tests for a missing value instead of an empty one.
UrlIsNone(u) == FALSE

\* if not url (line 132)
UrlIsEmpty(u) == u = <<>>

\* A variant that tests for a missing value instead of an empty one.
TextIsNone(t) == FALSE

\* if not text (line 138)
TextIsEmpty(t) == t = <<>>

\* A variant that catches the transport's exceptions only.
ShellCatchesTransport(e) == e.type \in {"ConnectionError", "HTTPError"}

\* except Exception as e (line 152)
ShellCatches(e) == e.type \in ExceptionTypes

\* What the page shows for an exception raised inside the handler's try:
\* st.error(f"Error: {str(e)}") if line 152 catches it, otherwise the
\* framework's report of an uncaught exception.
OnException(e) ==
    IF ShellCatches(e) THEN Shown("error", ShellErrorPrefix \o Str(e))
    ELSE Shown("traceback", Str(e))

\* A variant that inspects the string and reports an error for the prefix.
RenderByPrefix(s) ==
    IF IsPrefix(ErrorPrefix, s) THEN Shown("error", s) ELSE Shown("success", s)

\* Lines 145-150: the success notice and the summary block.
RenderSummary(s) == Shown("success", s)

\* One execution of the script up to its first blocking call: the template
\* load (lines 25-26), the widgets (lines 119-128), the button (lines 131-137).
RunScript(u, a, n, button) ==
    LET ld == LoadTemplate(file) IN
    /\ loads < MaxRuns
    /\ loads' = loads + 1
    /\ url' = u /\ audience' = a /\ length' = n
    /\ clicked' = (button /\ ~ld.raised)
    /\ posts' = 0 /\ reply' = NoReply /\ gsState' = "none"
    /\ pages' = <<>> /\ text' = <<>> /\ prompt' = NoRequest /\ summary' = <<>>
    /\ UNCHANGED file
    /\ IF ld.raised
       THEN /\ TEMPLATE' = Unbound
            /\ display' = Shown("traceback", Str(ld.exc))
            /\ pc' = "Idle" /\ gets' = 0 /\ exState' = "none"
       ELSE /\ TEMPLATE' = Bound(ld.val)
            /\ IF ~button
               THEN display' = NoDisplay /\ pc' = "Idle" /\ gets' = 0 /\ exState' = "none"
               ELSE IF UrlIsEmpty(u)
               THEN /\ display' = Shown("warning", WarningMsg)
                    /\ pc' = "Idle" /\ gets' = 0 /\ exState' = "none"
               ELSE /\ display' = NoDisplay
                    /\ pc' = "Extracting" /\ gets' = 1 /\ exState' = "called"

\* The widgets exist on the page only if the last run got past the load.
PageReady == pc = "Idle" /\ TEMPLATE.bound

\* The browser (re)opens the page: a run with every widget at its default.
Reload ==
    /\ pc = "Idle"
    /\ RunScript(<<>>, BeginnerFriendly, SliderDefault, FALSE)

SetUrl(u) ==
    /\ PageReady /\ u # url
    /\ RunScript(u, audience, length, FALSE)

SetAudience(a) ==
    /\ PageReady /\ a # audience
    /\ RunScript(url, a, length, FALSE)

SetLength(n) ==
    /\ PageReady /\ n # length
    /\ RunScript(url, audience, n, FALSE)

\* The "Generate Summary" button.
Click ==
    /\ PageReady
    /\ RunScript(url, audience, length, TRUE)

\* template.json is rewritten on disk between runs.
EditFile(f) ==
    /\ pc = "Idle" /\ f # file
    /\ file' = f
    /\ UNCHANGED <<TEMPLATE, loads, url, audience, length, pc, clicked, gets, posts,
                   exState, gsState, pages, text, prompt, reply, summary, display>>

\* requests.get returns or raises: the rest of extract_text_from_pdf, the
\* emptiness test, and generate_summary up to its POST (lines 29-35, 137-143,
\* 39-61).
GetReturns(resp) ==
    /\ pc = "Extracting"
    /\ pages' = resp.pages
    /\ LET ex == ExtractTextFromPdf(resp) IN
       IF ex.raised
       THEN /\ exState' = "raised"
            /\ display' = OnException(ex.exc)
            /\ pc' = "Idle"
            /\ UNCHANGED <<text, gsState, prompt, posts>>
       ELSE /\ exState' = "returned"
            /\ text' = ex.val
            /\ IF TextIsEmpty(ex.val)
               THEN /\ display' = Shown("error", ExtractFailedMsg)
                    /\ pc' = "Idle"
                    /\ UNCHANGED <<gsState, prompt, posts>>
               ELSE LET rq == BuildRequest(TEMPLATE.obj, ex.val, audience, length) IN
                    IF rq.raised
                    THEN /\ gsState' = "raised"
                         /\ display' = OnException(rq.exc)
                         /\ pc' = "Idle"
                         /\ UNCHANGED <<prompt, posts>>
                    ELSE /\ gsState' = "called"
                         /\ prompt' = rq.val
                         /\ posts' = posts + 1
                         /\ pc' = "Summarizing"
                         /\ UNCHANGED display
    /\ UNCHANGED <<file, TEMPLATE, loads, url, audience, length, clicked, gets, reply, summary>>

\* requests.post returns or raises: the rest of generate_summary and the
\* rendering of its result (lines 61-66, 143-150).
PostReturns(resp) ==
    /\ pc = "Summarizing"
    /\ reply' = resp
    /\ LET r == HandleResponse(resp) IN
       IF r.raised
       THEN /\ gsState' = "raised"
            /\ display' = OnException(r.exc)
            /\ UNCHANGED summary
       ELSE /\ gsState' = "returned"
            /\ summary' = r.val
            /\ display' = RenderSummary(r.val)
    /\ pc' = "Idle"
    /\ UNCHANGED <<file, TEMPLATE, loads, url, audience, length, clicked, gets, posts,
                   exState, pages, text, prompt>>

GetCompletes == \E resp \in GetOutcomes : GetReturns(resp)
PostCompletes == \E resp \in PostOutcomes : PostReturns(resp)

\* The state once the page has been rendered for the first time.
Init ==
    /\ file \in {f \in TemplateFiles : f.valid}
    /\ TEMPLATE = Bound(file.obj)
    /\ loads = 1
    /\ url = <<>> /\ audience = BeginnerFriendly /\ length = SliderDefault
    /\ pc = "Idle" /\ clicked = FALSE
    /\ gets = 0 /\ posts = 0 /\ exState = "none" /\ gsState = "none"
    /\ pages = <<>> /\ text = <<>> /\ prompt = NoRequest /\ reply = NoReply
    /\ summary = <<>>
    /\ display = NoDisplay

Next ==
    \/ Reload
    \/ \E u \in Urls : SetUrl(u)
    \/ \E a \in Audiences : SetAudience(a)
    \/ \E n \in Lengths : SetLength(n)
    \/ Click
    \/ \E f \in TemplateFiles : EditFile(f)
    \/ GetCompletes
    \/ PostCompletes

Spec == Init /\ [][Next]_vars

\* Each blocking network call eventually returns or raises.
FairSpec == Spec /\ WF_vars(GetCompletes) /\ WF_vars(PostCompletes)

----------------------------------------------------------------------------
(* The extractor on its own: a run that has just issued its GET (the page  *)
(* was opened, a URL typed, an audience possibly chosen, the button        *)
(* clicked), against every document of up to MaxPages pages, up to the     *)
(* point where the run ends or issues its POST.                            *)

InitExtract ==
    /\ file \in {f \in TemplateFiles : f.valid}
    /\ TEMPLATE = Bound(file.obj)
    /\ url = UrlA /\ audience \in Audiences /\ length = SliderDefault
    /\ loads = IF audience = BeginnerFriendly THEN 3 ELSE 4
    /\ pc = "Extracting" /\ clicked = TRUE
    /\ gets = 1 /\ posts = 0 /\ exState = "called" /\ gsState = "none"
    /\ pages = <<>> /\ text = <<>> /\ prompt = NoRequest /\ reply = NoReply
    /\ summary = <<>>
    /\ display = NoDisplay

GetCompletesAny == \E resp \in GetOutcomesOver(PdfDocs) : GetReturns(resp)

NextExtract == GetCompletesAny

SpecExtract == InitExtract /\ [][NextExtract]_vars

----------------------------------------------------------------------------
(* Properties                                                              *)

\* A script run whose POST has come back.
PostAnswered == pc = "Idle" /\ posts = 1

\* The body holds choices[0].message.content.
HasContent(j) ==
    /\ j.t = "dict" /\ K_choices \in DOMAIN j.v
    /\ j.v[K_choices].t = "list" /\ Len(j.v[K_choices].v) >= 1
    /\ j.v[K_choices].v[1].t = "dict" /\ K_message \in DOMAIN j.v[K_choices].v[1].v
    /\ j.v[K_choices].v[1].v[K_message].t = "dict"
    /\ K_content \in DOMAIN j.v[K_choices].v[1].v[K_message].v

\* The rendering of the failure a reply amounts to, for the replies whose
\* status raises, whose body is not JSON, or whose JSON lacks the field.
FailureText(r) ==
    IF r.raises THEN r.exc.msg
    ELSE IF r.status \in 400..499 THEN IntToStr(r.status) \o ClientErrorMsg
    ELSE IF r.status \in 500..599 THEN IntToStr(r.status) \o ServerErrorMsg
    ELSE IF ~r.isJson THEN JsonErrorMsg
    ELSE IF K_choices \notin DOMAIN r.json.v THEN Quote(K_choices)
    ELSE IF r.json.v[K_choices].v = <<>> THEN IndexErrorMsg
    ELSE IF K_message \notin DOMAIN r.json.v[K_choices].v[1].v THEN Quote(K_message)
    ELSE Quote(K_content)

RECURSIVE JoinPages(_)
JoinPages(ps) == IF ps = <<>> THEN <<>> ELSE Head(ps) \o <<"\n">> \o JoinPages(Tail(ps))

Smaller(a, b) == IF a <= b THEN a ELSE b

\* C2: the text extract_text_from_pdf returns has length min(3000, L), L the
\* length of the per-page concatenation, and is its first min(3000, L)
\* characters.
C2_FirstCapCharacters ==
    exState = "returned" =>
        LET full == JoinPages(pages) IN
        /\ Len(text) <= TextCap
        /\ text = SubSeq(full, 1, Smaller(TextCap, Len(full)))

C2_Witness ==
    /\ exState = "returned" /\ Len(JoinPages(pages)) > TextCap
    /\ Len(text) = TextCap /\ text[TextCap] # "\n"

\* Where page i's segment starts in the concatenation, less one.
RECURSIVE Offset(_, _)
Offset(ps, i) == IF i = 1 THEN 0 ELSE Offset(ps, i - 1) + Len(ps[i - 1]) + 1

\* The text is N segments, segment i being page i's text and a newline.
IsSegmented(t, ps) ==
    /\ Len(t) = Offset(ps, Len(ps) + 1)
    /\ \A i \in 1..Len(ps) :
          /\ SubSeq(t, Offset(ps, i) + 1, Offset(ps, i) + Len(ps[i])) = ps[i]
          /\ t[Offset(ps, i) + Len(ps[i]) + 1] = "\n"

\* C6 as stated: for every PDF with N pages the returned text is N
\* newline-terminated segments, one per page in order, and has length at
\* most 3000.
C6_AlwaysSegmented ==
    exState = "returned" => (IsSegmented(text, pages) /\ Len(text) <= TextCap)

\* The text agrees with the N segments laid end to end as far as it goes.
IsSegmentsPrefix(t, ps) ==
    \A i \in 1..Len(ps) :
        LET off == Offset(ps, i)
            n == Len(ps[i])
            m == IF Len(t) <= off THEN 0 ELSE Smaller(n, Len(t) - off)
        IN  /\ SubSeq(t, off + 1, off + m) = SubSeq(ps[i], 1, m)
            /\ off + n + 1 <= Len(t) => t[off + n + 1] = "\n"

\* C6 amended: the returned text is the first min(3000, L) characters of
\* the N newline-terminated segments (one per page in order, L their total
\* length): all N segments when L <= 3000, their first 3000 characters
\* otherwise; its length is at most 3000.
C6_SegmentedWithinCap ==
    exState = "returned" =>
        LET total == Offset(pages, Len(pages) + 1) IN
        /\ Len(text) = Smaller(TextCap, total)
        /\ IsSegmentsPrefix(text, pages)
        /\ total <= TextCap => IsSegmented(text, pages)

C6_Witness ==
    /\ exState = "returned" /\ Len(pages) = 2
    /\ pages[1] # <<>> /\ pages[2] = <<>>
    /\ IsSegmented(text, pages)

\* C3: in a run in which the button handler runs with the URL field empty,
\* no GET and no POST is issued, neither extract_text_from_pdf nor
\* generate_summary is called, the warning is displayed and the shell is
\* back in Idle.
C3_EmptyUrlNoCalls ==
    (clicked /\ url = <<>>) =>
        /\ gets = 0 /\ posts = 0
        /\ exState = "none" /\ gsState = "none"
        /\ display = [kind |-> "warning", msg |-> WarningMsg]
        /\ pc = "Idle"

C3_Witness == clicked /\ url = <<>> /\ display.kind = "warning" /\ gets = 0

\* C4: when the fetch or the decoding raises, or extraction returns the
\* empty string, an error is displayed, the shell is back in Idle and
\* generate_summary was not called nor a POST sent; generate_summary is
\* called only after extraction returned a non-empty string.
C4_NoRequesterAfterFailedExtract ==
    /\ (exState = "raised" \/ (exState = "returned" /\ Len(text) = 0)) =>
          /\ display.kind = "error"
          /\ pc = "Idle"
          /\ gsState = "none" /\ posts = 0
    /\ (gsState # "none" \/ posts > 0) => (exState = "returned" /\ Len(text) > 0)

C4_Witness ==
    /\ exState = "raised" /\ pc = "Idle"
    /\ display = [kind |-> "error", msg |-> ShellErrorPrefix \o ConnectionErrorMsg]

\* C5: generate_summary never raises to its caller, whatever the template
\* holds: a failure to build the prompt comes back as a returned string.
C5_RequesterNeverRaises == gsState # "raised"

\* C7: the template is loaded exactly once and TEMPLATE never changes
\* afterwards: no step opens template.json again or gives TEMPLATE another
\* value.
C7_LoadedOnce == [][loads' = loads /\ TEMPLATE' = TEMPLATE]_vars

\* Failures raised while extracting or summarizing end as a displayed
\* message, and only a failed template load is reported as uncaught.
FailuresDisplayed ==
    /\ (pc = "Idle" /\ (exState = "raised" \/ gsState = "raised")) =>
          (display.kind = "error" /\ IsPrefix(ShellErrorPrefix, display.msg))
    /\ display.kind = "traceback" => ~TEMPLATE.bound

\* C8: every run that has left Idle returns to Idle once its network calls
\* have returned or raised; a failure raised while extracting or summarizing
\* is caught and displayed, and only a failed template load goes uncaught.
C8_RunsReturnToIdle == ((pc # "Idle") ~> (pc = "Idle")) /\ []FailuresDisplayed

C8_Witness ==
    /\ pc = "Idle" /\ exState = "returned" /\ gsState = "raised"
    /\ display.kind = "error"

\* C9: once generate_summary has returned, the shell shows what it returned
\* as the summary, with the success notice, whether or not it starts with
\* the error prefix.
C9_ReturnedStringRendered ==
    (pc = "Idle" /\ gsState = "returned") =>
        display = [kind |-> "success", msg |-> summary]

C9_Witness ==
    /\ pc = "Idle" /\ gsState = "returned"
    /\ IsPrefix(ErrorPrefix, summary) /\ reply.raises
    /\ display.kind = "success"

\* C10: a document with at least one page never extracts to the empty
\* string; the "Failed to extract text from PDF" message appears only for a
\* document with no page; a document whose pages all yield no text reaches
\* generate_summary as one newline per page.
C10_EmptyOnlyWithoutPages ==
    /\ (exState = "returned" /\ Len(pages) >= 1) => Len(text) >= 1
    /\ display = [kind |-> "error", msg |-> ExtractFailedMsg] =>
          (exState = "returned" /\ pages = <<>>)
    /\ (exState = "returned" /\ Len(pages) >= 1
          /\ \A i \in 1..Len(pages) : pages[i] = <<>>) =>
          (gsState # "none" /\ text = Block(Smaller(Len(pages), TextCap), "\n"))

C10_Witness ==
    /\ exState = "returned" /\ Len(pages) = MaxPages
    /\ \A i \in 1..Len(pages) : pages[i] = <<>>
    /\ gsState = "called" /\ pc = "Summarizing"

====
